---- MODULE Spec2Model ----
(***************************************************************************)
(* Trading_bot: the offline execution simulator                            *)
(* (BacktestEngine.run / _simulate_trades), the performance-metrics        *)
(* engine (calculate_metrics) and the live loop (TradingLoop).             *)
(*                                                                         *)
(* Numbers.  The program computes in binary floating point; the model      *)
(* computes in fixed point.  A price is an integer number of 1/10000       *)
(* (100.05 is 1000500), an amount of money an integer number of cents.     *)
(* Products and quotients are exact up to the final division, which        *)
(* truncates toward zero.  A drawdown sample is kept as the exact          *)
(* fraction num/den.                                                       *)
(***************************************************************************)
EXTENDS Integers, Sequences, FiniteSets, TLC

VARIABLES
    \* ---- BacktestEngine.run / _simulate_trades
    pc,             \* position of the run: "run", "simulate", "exits", "signals", "close", "done"
    outcome,        \* what run() produced: "none", "error", "raised", "results"
    nrows,          \* len(data) after strategy.analyze
    data,           \* the rows consumed so far (the row sequence, revealed row by row)
    i,              \* index of the row being processed (1-based), its timestamp
    balance,
    position,       \* 0: no position, 1: long, -1: short
    entry_price,
    entry_time,
    stop_loss,
    take_profit,
    trades,         \* the ledger
    equity_curve,
    max_equity,
    current_equity, \* row-local: computed at the top of the loop body
    drawdown,       \* row-local: computed at the top of the loop body
    opened,         \* history: number of positions opened in this call
    run_no,         \* history: 1 in the first call of _simulate_trades, 2 in the repeated one
    prev,           \* history: what the first call returned
    \* ---- calculate_metrics
    m_pc,           \* "ledger": the results are being put together, "done": the call ended,
                    \* "displayed": display_results ended
    m_trades,       \* results["trades"], the frame the caller passes and keeps
    m_curve,        \* results["equity_curve"], likewise
    metrics,        \* the dictionary returned: a function from its keys to their values
    m_outcome,      \* "none", "returned", "raised"
    \* ---- TradingLoop
    l_pc,           \* position of run: "fetch", "retry", "check", "dashboard", "sleep",
                    \* "stopped" (KeyboardInterrupt), "crashed" (except Exception),
                    \* "key_error" (except Exception, on a KeyError of risk_params);
                    \* before run: "load" (ConfigLoader.load), "rejected" (it raised)
    ticks,          \* iterations of the while loop completed
    data_empty,     \* self.data.empty
    latest,         \* self.data.iloc[-1] with its signals, once data was fetched
    attempt,        \* the retry loop's i
    waits,          \* the time.sleep calls of this iteration's retries, in seconds
    orders,         \* the orders this iteration sent to the exchange
    fetched,        \* history: a fetch of this iteration succeeded
    notes,          \* the notifications this iteration sent
    trailing_stop,  \* risk_params["trailing_stop"]
    risk_params,    \* the keys of config["risk_management"] that are read by subscript
    notifications_enabled,  \* config["notifications"]["enabled"]
    current_position,   \* 0: no position, 1: long, -1: short
    self_entry_price,
    self_stop_loss,
    self_take_profit,
    position_size,
    \* ---- the position sizing, as one computation
    s_pc,           \* "idle", "strategy" (get_position_size is next), "live" (the sizing
                    \* of the entry operations is next), "sized"
    s_args,         \* account_balance, price, atr and side of the entry to size
    s_size,         \* what get_position_size returned and what the entry operation computed
    \* ---- the cadence of TradingLoop.run, in whole seconds
    c_pc,           \* "idle", "start" (top of the while loop), "work" (fetch, retries,
                    \* signals, dashboard), "sleep" (_sleep_until_next_candle)
    timeframe,      \* self.timeframe
    clock,          \* the wall clock, in seconds since midnight
    now             \* the datetime.now() that run took at the top of the iteration

simVars == <<pc, outcome, nrows, data, i, balance, position, entry_price, entry_time,
             stop_loss, take_profit, trades, equity_curve, max_equity,
             current_equity, drawdown, opened, run_no, prev>>

metVars == <<m_pc, m_trades, m_curve, metrics, m_outcome>>

posVars == <<current_position, self_entry_price, self_stop_loss, self_take_profit,
             position_size>>

cfgVars == <<trailing_stop, risk_params, notifications_enabled>>

liveVars == <<l_pc, ticks, data_empty, latest, attempt, waits, orders, fetched, notes,
              cfgVars, posVars>>

sizeVars == <<s_pc, s_args, s_size>>

clockVars == <<c_pc, timeframe, clock, now>>

notSim == <<metVars, liveVars, sizeVars, clockVars>>

notMet == <<simVars, liveVars, sizeVars, clockVars>>

notLive == <<simVars, metVars, sizeVars, clockVars>>

notSize == <<simVars, metVars, liveVars, clockVars>>

notClock == <<simVars, metVars, liveVars, sizeVars>>

vars == <<simVars, metVars, liveVars, sizeVars, clockVars>>

-----------------------------------------------------------------------------
(* Bounds of the model *)

MaxRows == 3
MaxLedger == 7
MaxSamples == 2
MaxTicks == 4
MaxClock == 3900

(* Configuration read by BacktestEngine.__init__ (Scenario A of the spec) *)

InitialBalance == 1000000      \* 10000.00, in cents
FeeRateDen == 1000             \* fee_rate = 1/1000 = 0.001
SlippageDen == 2000            \* slippage = 1/2000 = 0.0005
RiskRewardRatio == 2

PricePerCent == 10 * 10        \* price units in one cent

(* The inputs: closes 40, 95, 99.95, 100 and 100.05 (99.95 and 100.05 are     *)
(* the entry prices of a short and of a long taken at 100); ATR 2.525 (a      *)
(* 5.05 stop distance) on every row, and ATR 0 (a market that has not moved   *)
(* for 14 rows: stop and target both at the entry price) on a row at 100      *)
(* that carries a signal                                                      *)
Prices == {400000, 950000, 999500, 1000000, 1000500}
AtrSet == {0, 25250}
Rows ==
    [close : Prices, buy_signal : BOOLEAN, sell_signal : BOOLEAN, atr : {25250}]
    \cup {r \in [close : {1000000}, buy_signal : BOOLEAN, sell_signal : BOOLEAN,
                 atr : {0}] : r.buy_signal \/ r.sell_signal}

-----------------------------------------------------------------------------
(* Arithmetic *)

Abs(x) == IF x < 0 THEN -x ELSE x

Sgn(x) == IF x < 0 THEN -1 ELSE 1

\* <<floor(a*b/c), (a*b) mod c>> for a, b >= 0 and c > 0, digit by digit over
\* a so that no intermediate value leaves the 32-bit range
RECURSIVE QuotRem(_, _, _)
QuotRem(a, b, c) ==
    IF a = 0 THEN <<0, 0>>
    ELSE LET p == QuotRem(a \div 10, b, c)
             t == p[2] * 10 + (a % 10) * b
         IN  <<p[1] * 10 + (t \div c), t % c>>

\* a * b / c, truncated toward zero (c > 0)
MulDiv(a, b, c) == Sgn(a) * Sgn(b) * QuotRem(Abs(a), Abs(b), c)[1]

Last(seq) == seq[Len(seq)]

\* x * (1 + slippage) and x * (1 - slippage)
SlipUp(x) == x + (x \div SlippageDen)

SlipDown(x) == x - (x \div SlippageDen)

-----------------------------------------------------------------------------
(* EMACrossoverStrategy: the stop and target calculators *)

\* stop two ATR away from the entry; atr stands for the mean true range of
\* the last 14 rows of data.loc[:i]
calculate_stop_loss(atr, side, entry) ==
    IF side = "long" THEN entry - 2 * atr ELSE entry + 2 * atr

calculate_take_profit(entry, stop, risk_reward_ratio) ==
    LET risk == Abs(entry - stop)
        reward == risk * risk_reward_ratio
    IN  IF entry > stop THEN entry + reward ELSE entry - reward

-----------------------------------------------------------------------------
(* _simulate_trades: the computations of the loop body *)

\* position * (current_price - entry_price) * balance / entry_price
UnrealizedPnl(pos, price, entry, bal) == MulDiv(bal, pos * (price - entry), entry)

CurrentEquity(pos, price, entry, bal) ==
    IF pos # 0 THEN bal + UnrealizedPnl(pos, price, entry, bal) ELSE bal

ZeroDrawdown == [num |-> 0, den |-> 1]

\* mutant: the drawdown is measured from the initial balance
Drawdown_FromInitial(maxeq, cur) ==
    [num |-> InitialBalance - cur, den |-> InitialBalance]

\* (max_equity - current_equity) / max_equity if max_equity > 0 else 0
Drawdown(maxeq, cur) ==
    IF maxeq > 0 THEN [num |-> maxeq - cur, den |-> maxeq] ELSE ZeroDrawdown

Max(a, b) == IF a >= b THEN a ELSE b

\* mutant: the target is tested before the stop
ExitBranch_TargetFirst(pos, price, stop, target) ==
    IF pos = 1 THEN
        IF price >= target THEN "long_target"
        ELSE IF price <= stop THEN "long_stop"
        ELSE "none"
    ELSE IF pos = -1 THEN
        IF price <= target THEN "short_target"
        ELSE IF price >= stop THEN "short_stop"
        ELSE "none"
    ELSE "none"

\* the if/elif chain on the stop and the target
ExitBranch(pos, price, stop, target) ==
    IF pos = 1 THEN
        IF price <= stop THEN "long_stop"
        ELSE IF price >= target THEN "long_target"
        ELSE "none"
    ELSE IF pos = -1 THEN
        IF price >= stop THEN "short_stop"
        ELSE IF price <= target THEN "short_target"
        ELSE "none"
    ELSE "none"

\* mutant: the entry branches do not look at the position
SignalBranch_NoFlatCheck(pos, buy, sell) ==
    IF buy /\ pos # 1 THEN "enter_long"
    ELSE IF sell /\ pos # -1 THEN "enter_short"
    ELSE "none"

\* mutant: a row whose stop or target closed the position takes no signal
SignalBranch_NotAfterExit(pos, buy, sell) ==
    IF trades # <<>> /\ trades[Len(trades)].exit_time = i THEN "none"
    ELSE IF pos = 0 /\ buy THEN "enter_long"
    ELSE IF pos = 0 /\ sell THEN "enter_short"
    ELSE IF pos = 1 /\ sell THEN "exit_long"
    ELSE IF pos = -1 /\ buy THEN "exit_short"
    ELSE "none"

\* mutant: on a flat position the sell signal is tested before the buy signal
SignalBranch_SellFirst(pos, buy, sell) ==
    IF pos = 0 /\ sell THEN "enter_short"
    ELSE IF pos = 0 /\ buy THEN "enter_long"
    ELSE IF pos = 1 /\ sell THEN "exit_long"
    ELSE IF pos = -1 /\ buy THEN "exit_short"
    ELSE "none"

\* the if/elif chain on the signals, on the position the exits left
SignalBranch(pos, buy, sell) ==
    IF pos = 0 /\ buy THEN "enter_long"
    ELSE IF pos = 0 /\ sell THEN "enter_short"
    ELSE IF pos = 1 /\ sell THEN "exit_long"
    ELSE IF pos = -1 /\ buy THEN "exit_short"
    ELSE "none"

\* mutant: the pnl of a close is taken on the initial balance
ClosePnl_OnInitialBalance(pos, exit, entry, bal) ==
    MulDiv(InitialBalance, pos * (exit - entry), entry)

\* pnl of a close: (exit - entry) / entry * balance, sign by side
ClosePnl(pos, exit, entry, bal) == MulDiv(bal, pos * (exit - entry), entry)

\* fee of a close: exit_price * fee_rate * balance / entry_price
CloseFee(exit, entry, bal) == MulDiv(bal, exit, entry) \div FeeRateDen

\* mutant: the entry fee is charged on the balance
EntryFee_OfBalance(entry) == balance \div FeeRateDen

\* fee of an entry: entry_price * fee_rate, in cents
EntryFee(entry) == (entry \div FeeRateDen) \div PricePerCent

SideName(pos) == IF pos = 1 THEN "long" ELSE "short"

\* mutant: the Trade records its two timestamps the wrong way round
Trade_SwappedTimes(etime, xtime, entry, exit, pos, pnl, fee, reason) ==
    [entry_time |-> xtime, exit_time |-> etime, entry_price |-> entry,
     exit_price |-> exit, position |-> SideName(pos), pnl |-> pnl, fee |-> fee,
     exit_reason |-> reason]

Trade(etime, xtime, entry, exit, pos, pnl, fee, reason) ==
    [entry_time |-> etime, exit_time |-> xtime, entry_price |-> entry,
     exit_price |-> exit, position |-> SideName(pos), pnl |-> pnl, fee |-> fee,
     exit_reason |-> reason]

EquityPoint(ts, eq, dd) == [timestamp |-> ts, equity |-> eq, drawdown |-> dd]

\* the row the loop reads at index k: revealed on first reading, the same on
\* every later reading
RowAt(k) == IF k <= Len(data) THEN {data[k]} ELSE Rows

Reveal(k, row) == IF k <= Len(data) THEN data ELSE Append(data, row)

-----------------------------------------------------------------------------
(* BacktestEngine.run and _simulate_trades as a state machine *)

\* mutant: a call leaves its final balance behind as the next call's start
initial_balance_carried == IF run_no = 2 THEN balance ELSE InitialBalance

\* self.initial_balance, set once by __init__
initial_balance == InitialBalance

InitSim ==
    /\ pc = "run"
    /\ outcome = "none"
    /\ nrows = 0
    /\ data = <<>>
    /\ i = 0
    /\ balance = 0
    /\ position = 0
    /\ entry_price = 0
    /\ entry_time = 0
    /\ stop_loss = 0
    /\ take_profit = 0
    /\ trades = <<>>
    /\ equity_curve = <<>>
    /\ max_equity = 0
    /\ current_equity = 0
    /\ drawdown = ZeroDrawdown
    /\ opened = 0
    /\ run_no = 1
    /\ prev = [trades |-> <<>>, equity_curve |-> <<>>]

locals == <<i, balance, position, entry_price, entry_time, stop_loss, take_profit,
            trades, equity_curve, max_equity, current_equity, drawdown, opened>>

\* run: the loaded data is empty, the error outcome is returned
RunNoData ==
    /\ pc = "run"
    /\ outcome' = "error"
    /\ pc' = "done"
    /\ UNCHANGED <<nrows, data, locals, run_no, prev, notSim>>

\* run: the loaded data is not empty; strategy.analyze keeps n of its rows
\* (generate_signals drops the rows whose indicators are undefined)
RunAnalyze ==
    /\ pc = "run"
    /\ \E n \in 0..MaxRows : nrows' = n
    /\ pc' = "simulate"
    /\ UNCHANGED <<outcome, data, locals, run_no, prev, notSim>>

\* _simulate_trades on an empty frame: data.index[0] raises IndexError,
\* which nothing in run catches
SimulateEmpty ==
    /\ pc = "simulate"
    /\ nrows = 0
    /\ outcome' = "raised"
    /\ pc' = "done"
    /\ UNCHANGED <<nrows, data, locals, run_no, prev, notSim>>

\* _simulate_trades: the initialisation and the first equity point
SimulateStart ==
    /\ pc = "simulate"
    /\ nrows > 0
    /\ balance' = initial_balance
    /\ position' = 0
    /\ entry_price' = 0
    /\ entry_time' = 0
    /\ stop_loss' = 0
    /\ take_profit' = 0
    /\ trades' = <<>>
    /\ equity_curve' = <<EquityPoint(1, initial_balance, ZeroDrawdown)>>
    /\ max_equity' = initial_balance
    /\ current_equity' = 0
    /\ drawdown' = ZeroDrawdown
    /\ opened' = 0
    /\ i' = 1
    /\ pc' = "exits"
    /\ UNCHANGED <<outcome, nrows, data, run_no, prev, notSim>>

\* the top of the loop body: the row is read, the equity is marked to market
RowTop(row) ==
    /\ data' = Reveal(i, row)
    /\ current_equity' = CurrentEquity(position, row.close, entry_price, balance)
    /\ max_equity' = Max(max_equity, current_equity')
    /\ drawdown' = Drawdown(max_equity', current_equity')

\* mutant: a close on a signal books the pnl and records no Trade
CloseAt_Unrecorded(exit, reason, ts) ==
    LET pnl == ClosePnl(position, exit, entry_price, balance)
        fee == CloseFee(exit, entry_price, balance)
    IN  /\ balance' = balance + pnl - fee
        /\ trades' = IF reason = "signal" THEN trades
                     ELSE Append(trades, Trade(entry_time, ts, entry_price, exit,
                                               position, pnl, fee, reason))

\* mutant: a close records its fee and does not charge it
CloseAt_FeeNotCharged(exit, reason, ts) ==
    LET pnl == ClosePnl(position, exit, entry_price, balance)
        fee == CloseFee(exit, entry_price, balance)
    IN  /\ balance' = balance + pnl
        /\ trades' = Append(trades, Trade(entry_time, ts, entry_price, exit,
                                          position, pnl, fee, reason))

\* a close: pnl, fee, balance and the Trade record
CloseAt(exit, reason, ts) ==
    LET pnl == ClosePnl(position, exit, entry_price, balance)
        fee == CloseFee(exit, entry_price, balance)
    IN  /\ balance' = balance + pnl - fee
        /\ trades' = Append(trades, Trade(entry_time, ts, entry_price, exit,
                                          position, pnl, fee, reason))

StopOrTarget(branch, exit, reason) ==
    /\ pc = "exits"
    /\ \E row \in RowAt(i) :
          /\ ExitBranch(position, row.close, stop_loss, take_profit) = branch
          /\ RowTop(row)
    /\ CloseAt(exit, reason, i)
    /\ position' = 0
    /\ pc' = "signals"
    /\ UNCHANGED <<outcome, nrows, i, entry_price, entry_time, stop_loss, take_profit,
                   equity_curve, opened, run_no, prev, notSim>>

\* mutant: the stop exit is priced at the observed close
LongStopLoss_AtClose == StopOrTarget("long_stop", SlipDown(data'[i].close), "stop_loss")

LongStopLoss == StopOrTarget("long_stop", SlipDown(stop_loss), "stop_loss")

LongTakeProfit == StopOrTarget("long_target", SlipDown(take_profit), "take_profit")

ShortStopLoss == StopOrTarget("short_stop", SlipUp(stop_loss), "stop_loss")

ShortTakeProfit == StopOrTarget("short_target", SlipUp(take_profit), "take_profit")

NoStopOrTarget ==
    /\ pc = "exits"
    /\ \E row \in RowAt(i) :
          /\ ExitBranch(position, row.close, stop_loss, take_profit) = "none"
          /\ RowTop(row)
    /\ pc' = "signals"
    /\ UNCHANGED <<outcome, nrows, i, balance, position, entry_price, entry_time,
                   stop_loss, take_profit, trades, equity_curve, opened, run_no, prev,
                   notSim>>

\* the bottom of the loop body: the equity point, then the next row or the end
RowEnd ==
    /\ equity_curve' = Append(equity_curve, EquityPoint(i, current_equity, drawdown))
    /\ IF i < nrows THEN i' = i + 1 /\ pc' = "exits" ELSE i' = i /\ pc' = "close"
    /\ UNCHANGED <<outcome, nrows, data, max_equity, current_equity, drawdown,
                   run_no, prev, notSim>>

Enter(branch, pos, entry) ==
    /\ pc = "signals"
    /\ SignalBranch(position, data[i].buy_signal, data[i].sell_signal) = branch
    /\ entry_price' = entry
    /\ entry_time' = i
    /\ position' = pos
    /\ stop_loss' = calculate_stop_loss(data[i].atr, SideName(pos), entry)
    /\ take_profit' = calculate_take_profit(entry, stop_loss', RiskRewardRatio)
    /\ balance' = balance - EntryFee(entry)
    /\ opened' = opened + 1
    /\ RowEnd
    /\ UNCHANGED trades

EnterLong == Enter("enter_long", 1, SlipUp(data[i].close))

EnterShort == Enter("enter_short", -1, SlipDown(data[i].close))

SignalExit(branch, exit) ==
    /\ pc = "signals"
    /\ SignalBranch(position, data[i].buy_signal, data[i].sell_signal) = branch
    /\ CloseAt(exit, "signal", i)
    /\ position' = 0
    /\ RowEnd
    /\ UNCHANGED <<entry_price, entry_time, stop_loss, take_profit, opened>>

ExitLongOnSignal == SignalExit("exit_long", SlipDown(data[i].close))

ExitShortOnSignal == SignalExit("exit_short", SlipUp(data[i].close))

NoSignalTransition ==
    /\ pc = "signals"
    /\ SignalBranch(position, data[i].buy_signal, data[i].sell_signal) = "none"
    /\ RowEnd
    /\ UNCHANGED <<balance, position, entry_price, entry_time, stop_loss, take_profit,
                   trades, opened>>

\* after the loop: the open position, if any, is closed at data.iloc[-1];
\* the local position is left as it is and the function returns
EndReason == "end_of_backtest"

\* mutant: the forced close is snapped to the stop level
EndExitPrice_Snapped(pos, price) ==
    IF pos = 1 THEN SlipDown(stop_loss) ELSE SlipUp(stop_loss)

EndExitPrice(pos, price) == IF pos = 1 THEN SlipDown(price) ELSE SlipUp(price)

CloseAtEnd(pos) ==
    /\ pc = "close"
    /\ position = pos
    /\ CloseAt(EndExitPrice(pos, data[nrows].close), EndReason, nrows)
    /\ pc' = "done"
    /\ outcome' = "results"
    /\ UNCHANGED <<nrows, data, i, position, entry_price, entry_time, stop_loss,
                   take_profit, equity_curve, max_equity, current_equity, drawdown,
                   opened, run_no, prev, notSim>>

CloseLongAtEnd == CloseAtEnd(1)

CloseShortAtEnd == CloseAtEnd(-1)

ReturnFlat ==
    /\ pc = "close"
    /\ position = 0
    /\ pc' = "done"
    /\ outcome' = "results"
    /\ UNCHANGED <<nrows, data, locals, run_no, prev, notSim>>

\* the same engine simulates the same data a second time
SimulateAgain ==
    /\ pc = "done"
    /\ outcome = "results"
    /\ run_no = 1
    /\ prev' = [trades |-> trades, equity_curve |-> equity_curve]
    /\ run_no' = 2
    /\ pc' = "simulate"
    /\ UNCHANGED <<outcome, nrows, data, locals, notSim>>

Next ==
    \/ RunNoData
    \/ RunAnalyze
    \/ SimulateEmpty
    \/ SimulateStart
    \/ LongStopLoss
    \/ LongTakeProfit
    \/ ShortStopLoss
    \/ ShortTakeProfit
    \/ NoStopOrTarget
    \/ EnterLong
    \/ EnterShort
    \/ ExitLongOnSignal
    \/ ExitShortOnSignal
    \/ NoSignalTransition
    \/ CloseLongAtEnd
    \/ CloseShortAtEnd
    \/ ReturnFlat

-----------------------------------------------------------------------------
(* calculate_metrics.  Metric values are fixed-point numbers with four        *)
(* decimals (Scale), +infinity, or, where the program takes a real power or   *)
(* a square root, a term that names the operation and its operands.           *)

Scale == 100 * 100

Num(v) == [kind |-> "num", v |-> v]

Inf == [kind |-> "inf"]

NaN == [kind |-> "nan"]

(* The inputs: ledgers of trades with pnl -1.00, 0 or +1.00, held one day     *)
(* each; equity curves that start at 100.00 and move to 90.00 or 110.00,      *)
(* samples 0 or 365 days apart, drawdown against the running peak             *)
PnlSet == {-100, 0, 100}
Equities == {9000, 11000}
Gaps == {0, 365}

LedgerTrade(k, pnl) == [entry_time |-> k - 1, exit_time |-> k, pnl |-> pnl]

FirstSample == EquityPoint(0, 100 * 100, ZeroDrawdown)

MaxOf(S) == IF S = {} THEN 0 ELSE CHOOSE m \in S : \A x \in S : x <= m

PeakOf(curve) == MaxOf({curve[k].equity : k \in 1..Len(curve)})

RECURSIVE CurvesOfLen(_)
CurvesOfLen(n) ==
    IF n = 0 THEN {<<>>}
    ELSE IF n = 1 THEN {<<FirstSample>>}
    ELSE {Append(c, EquityPoint(Last(c).timestamp + g, e,
                                Drawdown(Max(PeakOf(c), e), e))) :
             c \in CurvesOfLen(n - 1), e \in Equities, g \in Gaps}

Curves == UNION {CurvesOfLen(n) : n \in 0..MaxSamples}

\* ---- the equity-curve metrics

\* ((final_equity / initial_equity) - 1) * 100
TotalReturn(curve) ==
    MulDiv(Last(curve).equity - curve[1].equity, 100 * Scale, curve[1].equity)

\* (equity_curve.iloc[-1]["timestamp"] - equity_curve.iloc[0]["timestamp"]).days
ElapsedDays(curve) == Last(curve).timestamp - curve[1].timestamp

\* ((1 + total_return / 100) ** (365 / days) - 1) * 100
AnnualizedReturn(total_return, days) ==
    [kind |-> "annualized", total_return |-> total_return, days |-> days]

FracLeq(a, b) == a.num * b.den <= b.num * a.den

\* equity_curve["drawdown"].max()
MaxDrawdownSample(curve) ==
    CHOOSE d \in {curve[k].drawdown : k \in 1..Len(curve)} :
        \A k \in 1..Len(curve) : FracLeq(curve[k].drawdown, d)

\* max_drawdown, in percent
MaxDrawdown(curve) ==
    MulDiv(MaxDrawdownSample(curve).num, 100 * Scale, MaxDrawdownSample(curve).den)

\* max_drawdown > 0
MaxDrawdownPositive(curve) == MaxDrawdownSample(curve).num > 0

\* equity_curve["equity"].pct_change(): NaN, then the simple returns
DailyReturn(curve, k) ==
    IF k = 1 THEN NaN
    ELSE [kind |-> "frac", num |-> curve[k].equity - curve[k - 1].equity,
          den |-> curve[k - 1].equity]

\* daily_returns.std() > 0: at least two returns (the sample deviation of one
\* return is NaN) that are not all equal
StdPositive(curve) ==
    \E j, k \in 2..Len(curve) :
        ~(FracLeq(DailyReturn(curve, j), DailyReturn(curve, k))
          /\ FracLeq(DailyReturn(curve, k), DailyReturn(curve, j)))

\* sqrt(252) * mean / std, or 0
SharpeRatio(curve) ==
    IF Len(curve) > 1
    THEN IF Len(curve) - 1 > 0 /\ StdPositive(curve)
         THEN [kind |-> "sharpe", of |-> [k \in 2..Len(curve) |-> DailyReturn(curve, k)]]
         ELSE Num(0)
    ELSE Num(0)

\* ---- the trade metrics

Winning(tr) == {k \in 1..Len(tr) : tr[k].pnl > 0}

Losing(tr) == {k \in 1..Len(tr) : tr[k].pnl <= 0}

RECURSIVE SumPnl(_, _)
SumPnl(tr, S) ==
    IF S = {} THEN 0
    ELSE LET k == CHOOSE x \in S : TRUE IN tr[k].pnl + SumPnl(tr, S \ {k})

\* the mean of the pnl over S, 0 for an empty S
MeanPnl(tr, S) ==
    IF Cardinality(S) > 0 THEN MulDiv(SumPnl(tr, S), Scale, Cardinality(S)) ELSE 0

WinRate(tr) ==
    IF Len(tr) > 0 THEN MulDiv(Cardinality(Winning(tr)), 100 * Scale, Len(tr)) ELSE 0

ProfitFactor(tr) ==
    LET gross_profit == IF Cardinality(Winning(tr)) > 0 THEN SumPnl(tr, Winning(tr)) ELSE 0
        gross_loss == IF Cardinality(Losing(tr)) > 0 THEN Abs(SumPnl(tr, Losing(tr))) ELSE 0
    IN  IF gross_loss > 0 THEN Num(MulDiv(gross_profit, Scale, gross_loss)) ELSE Inf

\* trades["win"] = trades["pnl"] > 0
WinColumn(tr) == [k \in 1..Len(tr) |-> tr[k].pnl > 0]

\* mutant: the win column is compared with the row after it, shift(-1)
StreakColumn_ShiftedBack(win) ==
    [k \in 1..Len(win) |->
        Cardinality({j \in 1..k : j = Len(win) \/ win[j] # win[j + 1]})]

\* trades["streak"] = (trades["win"] != trades["win"].shift(1)).cumsum();
\* the first row differs from the NaN that shift puts before it
StreakColumn(win) ==
    [k \in 1..Len(win) |->
        Cardinality({j \in 1..k : j = 1 \/ win[j] # win[j - 1]})]

\* trades[trades["win"] == flag].groupby("streak").size()
StreakSizes(win, flag) ==
    LET streak == StreakColumn(win)
        rows == {k \in 1..Len(win) : win[k] = flag}
    IN  {Cardinality({k \in rows : streak[k] = s}) : s \in {streak[k] : k \in rows}}

\* streaks.max() if not streaks.empty else 0
MaxConsecutive(tr, flag) == MaxOf(StreakSizes(WinColumn(tr), flag))

\* (exit_time - entry_time).dt.total_seconds() / 3600, times being in days
HoldingTime(t) == (t.exit_time - t.entry_time) * 24

RECURSIVE SumHolding(_, _)
SumHolding(tr, n) == IF n = 0 THEN 0 ELSE HoldingTime(tr[n]) + SumHolding(tr, n - 1)

AvgHoldingTime(tr) == MulDiv(SumHolding(tr, Len(tr)), Scale, Len(tr))

\* ---- the frames after the call: the columns calculate_metrics adds to them

CurveAfter(curve) ==
    IF Len(curve) > 1
    THEN [k \in 1..Len(curve) |-> curve[k] @@ [daily_return |-> DailyReturn(curve, k)]]
    ELSE curve

TradesAfter(tr) ==
    [k \in 1..Len(tr) |->
        tr[k] @@ [win |-> WinColumn(tr)[k], streak |-> StreakColumn(WinColumn(tr))[k],
                  holding_time |-> HoldingTime(tr[k])]]

\* ---- the dictionary

CurveMetrics(curve) ==
    [total_return |-> Num(TotalReturn(curve)),
     annualized_return |->
         IF ElapsedDays(curve) > 0
         THEN AnnualizedReturn(TotalReturn(curve), ElapsedDays(curve))
         ELSE Num(0),
     max_drawdown |-> Num(MaxDrawdown(curve)),
     sharpe_ratio |-> SharpeRatio(curve)]

TradeMetrics(tr) ==
    [total_trades |-> Num(Len(tr)),
     winning_trades |-> Num(Cardinality(Winning(tr))),
     losing_trades |-> Num(Cardinality(Losing(tr))),
     win_rate |-> Num(WinRate(tr)),
     avg_win |-> Num(MeanPnl(tr, Winning(tr))),
     avg_loss |-> Num(MeanPnl(tr, Losing(tr))),
     avg_trade |-> Num(MeanPnl(tr, 1..Len(tr))),
     profit_factor |-> ProfitFactor(tr),
     max_consecutive_wins |-> Num(MaxConsecutive(tr, TRUE)),
     max_consecutive_losses |-> Num(MaxConsecutive(tr, FALSE)),
     avg_holding_time |-> Num(AvgHoldingTime(tr))]

\* total_return / max_drawdown, or inf
Romad(curve) ==
    IF MaxDrawdownPositive(curve)
    THEN Num(MulDiv(TotalReturn(curve), Scale, MaxDrawdown(curve)))
    ELSE Inf

\* annualized_return / max_drawdown, or inf; the local annualized_return is
\* bound only on the days > 0 path
CalmarRaises(curve) == MaxDrawdownPositive(curve) /\ ~(ElapsedDays(curve) > 0)

Calmar(curve) ==
    IF MaxDrawdownPositive(curve)
    THEN [kind |-> "ratio",
          of |-> AnnualizedReturn(TotalReturn(curve), ElapsedDays(curve)),
          by |-> MaxDrawdown(curve)]
    ELSE Inf

RatioMetrics(curve) == [romad |-> Romad(curve), calmar_ratio |-> Calmar(curve)]

\* `if trades.empty or equity_curve.empty: return metrics`
EmptyResults(tr, curve) == tr = <<>> \/ curve = <<>>

InitMetrics ==
    /\ m_pc = "ledger"
    /\ m_trades = <<>>
    /\ m_curve = <<>>
    /\ metrics = <<>>
    /\ m_outcome = "none"

\* the caller appends a Trade to the ledger it will pass
AddTrade ==
    /\ m_pc = "ledger"
    /\ Len(m_trades) < MaxLedger
    /\ \E pnl \in PnlSet :
          m_trades' = Append(m_trades, LedgerTrade(Len(m_trades) + 1, pnl))
    /\ UNCHANGED <<m_pc, m_curve, metrics, m_outcome, notMet>>

\* calculate_metrics returns the empty dictionary
MetricsOfNothing ==
    /\ m_pc = "ledger"
    /\ \E curve \in Curves :
          /\ EmptyResults(m_trades, curve)
          /\ m_curve' = curve
    /\ metrics' = <<>>
    /\ m_outcome' = "returned"
    /\ m_pc' = "done"
    /\ UNCHANGED <<m_trades, notMet>>

\* calculate_metrics runs to its last line
MetricsReturned ==
    /\ m_pc = "ledger"
    /\ \E curve \in Curves :
          /\ ~EmptyResults(m_trades, curve)
          /\ ~CalmarRaises(curve)
          /\ m_curve' = CurveAfter(curve)
          /\ metrics' = CurveMetrics(curve) @@ TradeMetrics(m_trades) @@ RatioMetrics(curve)
    /\ m_trades' = TradesAfter(m_trades)
    /\ m_outcome' = "returned"
    /\ m_pc' = "done"
    /\ UNCHANGED notMet

\* calculate_metrics raises UnboundLocalError at the Calmar ratio
MetricsRaised ==
    /\ m_pc = "ledger"
    /\ \E curve \in Curves :
          /\ ~EmptyResults(m_trades, curve)
          /\ CalmarRaises(curve)
          /\ m_curve' = CurveAfter(curve)
    /\ m_trades' = TradesAfter(m_trades)
    /\ metrics' = <<>>
    /\ m_outcome' = "raised"
    /\ m_pc' = "done"
    /\ UNCHANGED notMet

\* the metrics display_results formats, in the order it reads them
DisplayKeys ==
    {"total_return", "annualized_return", "sharpe_ratio", "max_drawdown", "win_rate",
     "profit_factor", "total_trades", "winning_trades", "losing_trades", "avg_win",
     "avg_loss", "avg_trade"}

\* display_results raises: IndexError on equity_curve.iloc[-1] of an empty
\* curve, KeyError on a metric that is not in the dictionary
DisplayFails == m_curve = <<>> \/ ~(DisplayKeys \subseteq DOMAIN metrics)

\* display_results prints the results that run returned
DisplayResults ==
    /\ m_pc = "done"
    /\ m_outcome = "returned"
    /\ ~DisplayFails
    /\ m_pc' = "displayed"
    /\ UNCHANGED <<m_trades, m_curve, metrics, m_outcome, notMet>>

\* display_results raises on the results that run returned
DisplayRaised ==
    /\ m_pc = "done"
    /\ m_outcome = "returned"
    /\ DisplayFails
    /\ m_outcome' = "display_raised"
    /\ m_pc' = "displayed"
    /\ UNCHANGED <<m_trades, m_curve, metrics, notMet>>

NextMetrics ==
    \/ AddTrade
    \/ MetricsOfNothing
    \/ MetricsReturned
    \/ MetricsRaised
    \/ DisplayResults
    \/ DisplayRaised

-----------------------------------------------------------------------------
(* TradingLoop.  Prices as in the simulator (units of 1/10000), the balance   *)
(* and the position size in cents.                                            *)

(* risk_management configuration *)
RiskPerTradeDen == 100            \* risk_per_trade = 1/100 = 0.01
MaxPositionSizeDen == 5           \* max_position_size = 1/5 = 0.2
TrailingActivationDen == 100      \* trailing_stop_activation = 1/100 = 0.01
TrailingDistanceDen == 50         \* trailing_stop_distance = 1/50 = 0.02
MaxRetries == 3

(* The inputs: closes 92, 93, 100, 107 and 108; the exchange reports a        *)
(* balance of 10000.00                                                        *)
LivePrices == {920000, 930000, 1000000, 1070000, 1080000}
LiveRows == [close : LivePrices, buy_signal : BOOLEAN, sell_signal : BOOLEAN]
LiveBalances == {1000000}
NoRow == [close |-> 0, buy_signal |-> FALSE, sell_signal |-> FALSE]

Min(a, b) == IF a <= b THEN a ELSE b

\* the keys of risk_management that the loop reads as risk_params[key]
RiskKeys ==
    {"max_position_size", "trailing_stop", "trailing_stop_activation",
     "trailing_stop_distance"}

\* ConfigLoader._validate_config, for the risk_management section: the one key
\* it looks for
validate_config(keys) == "max_position_size" \in keys

\* BaseStrategy.get_current_position
get_current_position(empty, row) ==
    IF empty THEN "flat"
    ELSE IF row.buy_signal THEN "long"
    ELSE IF row.sell_signal THEN "short"
    ELSE "flat"

\* the position state of the loop as one value, with what the handlers did:
\* the orders sent and whether an exception left the handler
LiveState ==
    [current_position |-> current_position, entry_price |-> self_entry_price,
     stop_loss |-> self_stop_loss, take_profit |-> self_take_profit,
     position_size |-> position_size, orders |-> <<>>, notes |-> notes,
     raised |-> FALSE, key_error |-> FALSE]

\* a KeyError leaves the handler
KeyError(st) == [st EXCEPT !.raised = TRUE, !.key_error = TRUE]

Order(side, reason, ok) == [side |-> side, reason |-> reason, ok |-> ok]

\* notification_manager.send_notification, if notifications are enabled; the
\* manager logs the failures of its channels and raises nothing
Notify(sent, title) == IF notifications_enabled THEN Append(sent, title) ELSE sent

\* the sizing of _enter_long_position and _enter_short_position; risk is
\* price - stop_loss for a long, stop_loss - price for a short, so that
\* risk_per_unit = risk / price
PositionSize(account_balance, price, risk) ==
    LET max_position_size == account_balance \div MaxPositionSizeDen
        risk_amount == account_balance \div RiskPerTradeDen
        size == IF risk > 0 THEN MulDiv(risk_amount, price, risk) ELSE 0
    IN  Min(size, max_position_size)

\* _enter_long_position (pos = 1) and _enter_short_position (pos = -1):
\* get_balance outside the try, the order inside
EnterPosition(st, pos, price, atr, bal, bal_ok, order_ok) ==
    IF ~bal_ok THEN [st EXCEPT !.raised = TRUE]
    ELSE IF "max_position_size" \notin risk_params THEN KeyError(st)
    ELSE LET stop == calculate_stop_loss(atr, SideName(pos), price)
             target == calculate_take_profit(price, stop, RiskRewardRatio)
             size == PositionSize(bal, price, pos * (price - stop))
             side == IF pos = 1 THEN "buy" ELSE "sell"
         IN  IF order_ok
             THEN [st EXCEPT !.current_position = pos, !.entry_price = price,
                             !.stop_loss = stop, !.take_profit = target,
                             !.position_size = size,
                             !.orders = Append(@, Order(side, "entry", TRUE)),
                             !.notes = Notify(@, "Entered position")]
             ELSE [st EXCEPT !.orders = Append(@, Order(side, "entry", FALSE)),
                             !.notes = Notify(@, "Error entering position")]

\* mutant: a successful exit resets current_position and position_size only
ExitPosition_KeepsLevels(st, price, reason, order_ok) ==
    IF st.current_position = 0 THEN st
    ELSE LET side == IF st.current_position = 1 THEN "sell" ELSE "buy"
         IN  IF order_ok
             THEN [st EXCEPT !.current_position = 0, !.position_size = 0,
                             !.orders = Append(@, Order(side, reason, TRUE)),
                             !.notes = Notify(@, "Exited position")]
             ELSE [st EXCEPT !.orders = Append(@, Order(side, reason, FALSE)),
                             !.notes = Notify(@, "Error exiting position")]

\* _exit_position
ExitPosition(st, price, reason, order_ok) ==
    IF st.current_position = 0 THEN st
    ELSE LET side == IF st.current_position = 1 THEN "sell" ELSE "buy"
         IN  IF order_ok
             THEN [st EXCEPT !.current_position = 0, !.entry_price = 0,
                             !.stop_loss = 0, !.take_profit = 0, !.position_size = 0,
                             !.orders = Append(@, Order(side, reason, TRUE)),
                             !.notes = Notify(@, "Exited position")]
             ELSE [st EXCEPT !.orders = Append(@, Order(side, reason, FALSE)),
                             !.notes = Notify(@, "Error exiting position")]

\* _check_signals, first if/elif chain: entry and exit on the signal
OnSignal(st, position_type, price, atr, bal, bal_ok, order_ok) ==
    IF position_type = "long" /\ st.current_position <= 0
    THEN EnterPosition(st, 1, price, atr, bal, bal_ok, order_ok)
    ELSE IF position_type = "short" /\ st.current_position >= 0
    THEN EnterPosition(st, -1, price, atr, bal, bal_ok, order_ok)
    ELSE IF position_type = "flat" /\ st.current_position # 0
    THEN ExitPosition(st, price, "signal", order_ok)
    ELSE st

\* price * (1 - distance) for a long, price * (1 + distance) for a short
TrailingCandidate(pos, price) ==
    IF pos = 1 THEN price - (price \div TrailingDistanceDen)
    ELSE price + (price \div TrailingDistanceDen)

\* current_price beyond entry_price * (1 +- trailing_stop_activation)
TrailingActive(pos, price, entry) ==
    IF pos = 1 THEN price > entry + (entry \div TrailingActivationDen)
    ELSE price < entry - (entry \div TrailingActivationDen)

\* mutant: the trailing update takes every candidate
TrailedStop_Unguarded(pos, price, stop) ==
    TrailingCandidate(pos, price)

\* the stop after the trailing update: the candidate if it is tighter
TrailedStop(pos, price, stop) ==
    LET new_stop_loss == TrailingCandidate(pos, price)
    IN  IF pos = 1
        THEN IF new_stop_loss > stop THEN new_stop_loss ELSE stop
        ELSE IF new_stop_loss < stop THEN new_stop_loss ELSE stop

\* the stop and target tests of the second chain
ExitBranchLive(st, price) ==
    IF st.current_position = 1 THEN
        IF price <= st.stop_loss THEN "stop_loss"
        ELSE IF price >= st.take_profit THEN "take_profit"
        ELSE "none"
    ELSE IF st.current_position = -1 THEN
        IF price >= st.stop_loss THEN "stop_loss"
        ELSE IF price <= st.take_profit THEN "take_profit"
        ELSE "none"
    ELSE "none"

\* the trailing branch reads a key that the configuration does not have:
\* trailing_stop first, trailing_stop_activation if trailing_stop is true,
\* trailing_stop_distance if the activation level is passed
TrailingKeyError(st, price, trailing) ==
    \/ "trailing_stop" \notin risk_params
    \/ /\ trailing
       /\ \/ "trailing_stop_activation" \notin risk_params
          \/ /\ TrailingActive(st.current_position, price, st.entry_price)
             /\ "trailing_stop_distance" \notin risk_params

\* _check_signals, second chain: stop loss, take profit, trailing stop, on the
\* state the first chain left
OnPrice(st, price, trailing, order_ok) ==
    IF st.raised THEN st
    ELSE IF ExitBranchLive(st, price) = "stop_loss"
    THEN ExitPosition(st, st.stop_loss, "stop_loss", order_ok)
    ELSE IF ExitBranchLive(st, price) = "take_profit"
    THEN ExitPosition(st, st.take_profit, "take_profit", order_ok)
    ELSE IF st.current_position # 0 /\ TrailingKeyError(st, price, trailing)
    THEN KeyError(st)
    ELSE IF st.current_position # 0 /\ trailing
            /\ TrailingActive(st.current_position, price, st.entry_price)
    THEN [st EXCEPT !.stop_loss = TrailedStop(st.current_position, price, @)]
    ELSE st

CheckSignalsResult(st, row, trailing, atr, bal, bal_ok, ok1, ok2) ==
    OnPrice(OnSignal(st, get_current_position(FALSE, row), row.close, atr, bal,
                     bal_ok, ok1),
            row.close, trailing, ok2)

InitPosition ==
    /\ current_position = 0
    /\ self_entry_price = 0
    /\ self_stop_loss = 0
    /\ self_take_profit = 0
    /\ position_size = 0

InitLoop ==
    /\ l_pc = "fetch"
    /\ ticks = 0
    /\ data_empty = TRUE
    /\ latest = NoRow
    /\ attempt = 0
    /\ waits = <<>>
    /\ orders = <<>>
    /\ fetched = FALSE
    /\ notes = <<>>
    /\ InitPosition

\* the loop is not running: the state of the other specifications
InitLive ==
    /\ InitLoop
    /\ trailing_stop = TRUE
    /\ risk_params = RiskKeys
    /\ notifications_enabled = TRUE

\* a loop about to run, with the trailing stop and the notifications
\* configured on or off
InitLiveRun ==
    /\ InitLoop
    /\ trailing_stop \in BOOLEAN
    /\ risk_params = RiskKeys
    /\ notifications_enabled \in BOOLEAN

\* mutant: the wait grows by one second per retry
Backoff_Linear(k) == k + 1

\* time.sleep(2 ** i)
Backoff(k) == 2 ^ k

\* _update_market_data: the first fetch succeeds
FetchOk ==
    /\ l_pc = "fetch"
    /\ \E row \in LiveRows : latest' = row
    /\ data_empty' = FALSE
    /\ fetched' = TRUE
    /\ waits' = <<>>
    /\ orders' = <<>>
    /\ notes' = <<>>
    /\ l_pc' = "check"
    /\ UNCHANGED <<ticks, attempt, cfgVars, posVars, notLive>>

\* _update_market_data: the first fetch raises, the error is logged and the
\* retry loop starts
FetchFailed ==
    /\ l_pc = "fetch"
    /\ fetched' = FALSE
    /\ attempt' = 0
    /\ waits' = <<>>
    /\ orders' = <<>>
    /\ notes' = <<>>
    /\ l_pc' = "retry"
    /\ UNCHANGED <<ticks, data_empty, latest, cfgVars, posVars, notLive>>

\* a retry: time.sleep(2 ** i), then the fetch succeeds and the loop breaks
RetryOk ==
    /\ l_pc = "retry"
    /\ attempt < MaxRetries
    /\ waits' = Append(waits, Backoff(attempt))
    /\ \E row \in LiveRows : latest' = row
    /\ data_empty' = FALSE
    /\ fetched' = TRUE
    /\ l_pc' = "check"
    /\ UNCHANGED <<ticks, attempt, orders, notes, cfgVars, posVars, notLive>>

\* a retry: time.sleep(2 ** i), then the fetch raises again and the error is
\* logged
RetryFailed ==
    /\ l_pc = "retry"
    /\ attempt < MaxRetries
    /\ waits' = Append(waits, Backoff(attempt))
    /\ attempt' = attempt + 1
    /\ UNCHANGED <<l_pc, ticks, data_empty, latest, orders, fetched, notes, cfgVars,
                   posVars, notLive>>

\* the retry loop is exhausted; _update_market_data returns
RetriesExhausted ==
    /\ l_pc = "retry"
    /\ attempt = MaxRetries
    /\ l_pc' = "check"
    /\ UNCHANGED <<ticks, data_empty, latest, attempt, waits, orders, fetched, notes,
                   cfgVars, posVars, notLive>>

\* run: self.data is empty, nothing is analysed
SkipEmpty ==
    /\ l_pc = "check"
    /\ data_empty
    /\ l_pc' = "sleep"
    /\ UNCHANGED <<ticks, data_empty, latest, attempt, waits, orders, fetched, notes,
                   cfgVars, posVars, notLive>>

\* run: strategy.analyze and _check_signals on self.data; an exception that
\* leaves _check_signals is caught and notified by run, which returns
CheckSignals ==
    /\ l_pc = "check"
    /\ ~data_empty
    /\ \E atr \in AtrSet, bal \in LiveBalances, bal_ok, ok1, ok2 \in BOOLEAN :
          LET r == CheckSignalsResult(LiveState, latest, trailing_stop, atr, bal,
                                      bal_ok, ok1, ok2)
          IN  /\ current_position' = r.current_position
              /\ self_entry_price' = r.entry_price
              /\ self_stop_loss' = r.stop_loss
              /\ self_take_profit' = r.take_profit
              /\ position_size' = r.position_size
              /\ orders' = r.orders
              /\ notes' = IF r.raised THEN Notify(r.notes, "Error in trading")
                          ELSE r.notes
              /\ l_pc' = IF r.key_error THEN "key_error"
                         ELSE IF r.raised THEN "crashed" ELSE "dashboard"
    /\ UNCHANGED <<ticks, data_empty, latest, attempt, waits, fetched, cfgVars, notLive>>

\* run: strategy.analyze raises; run's except Exception notifies the error and
\* ends the loop
AnalyzeRaised ==
    /\ l_pc = "check"
    /\ ~data_empty
    /\ notes' = Notify(notes, "Error in trading")
    /\ l_pc' = "crashed"
    /\ UNCHANGED <<ticks, data_empty, latest, attempt, waits, orders, fetched, cfgVars,
                   posVars, notLive>>

\* _update_dashboard: get_balance answers
DashboardShown ==
    /\ l_pc = "dashboard"
    /\ l_pc' = "sleep"
    /\ UNCHANGED <<ticks, data_empty, latest, attempt, waits, orders, fetched, notes,
                   cfgVars, posVars, notLive>>

\* _update_dashboard: get_balance raises, run's except Exception notifies the
\* error and ends the loop
DashboardRaised ==
    /\ l_pc = "dashboard"
    /\ notes' = Notify(notes, "Error in trading")
    /\ l_pc' = "crashed"
    /\ UNCHANGED <<ticks, data_empty, latest, attempt, waits, orders, fetched, cfgVars,
                   posVars, notLive>>

\* _sleep_until_next_candle returns, the next iteration starts
Sleep ==
    /\ l_pc = "sleep"
    /\ ticks < MaxTicks
    /\ ticks' = ticks + 1
    /\ l_pc' = "fetch"
    /\ UNCHANGED <<data_empty, latest, attempt, waits, orders, fetched, notes, cfgVars,
                   posVars, notLive>>

\* mutant: the cancellation closes the open position before run returns
Interrupted_ForcedClose ==
    /\ l_pc \in {"fetch", "retry", "check", "dashboard", "sleep"}
    /\ notes' = Notify(notes, "trading stopped")
    /\ orders' = IF current_position = 0 THEN orders
                 ELSE Append(orders, Order("sell", "shutdown", TRUE))
    /\ current_position' = 0
    /\ self_entry_price' = 0
    /\ self_stop_loss' = 0
    /\ self_take_profit' = 0
    /\ position_size' = 0
    /\ l_pc' = "stopped"
    /\ UNCHANGED <<ticks, data_empty, latest, attempt, waits, fetched, cfgVars, notLive>>

\* KeyboardInterrupt, delivered between two steps of the loop; no handler of
\* the loop catches it but run, which notifies the stop and returns
Interrupted ==
    /\ l_pc \in {"fetch", "retry", "check", "dashboard", "sleep"}
    /\ notes' = Notify(notes, "trading stopped")
    /\ l_pc' = "stopped"
    /\ UNCHANGED <<ticks, data_empty, latest, attempt, waits, orders, fetched, cfgVars,
                   posVars, notLive>>

NextLive ==
    \/ FetchOk
    \/ FetchFailed
    \/ RetryOk
    \/ RetryFailed
    \/ RetriesExhausted
    \/ SkipEmpty
    \/ CheckSignals
    \/ AnalyzeRaised
    \/ DashboardShown
    \/ DashboardRaised
    \/ Sleep
    \/ Interrupted

\* ConfigLoader.load accepts the configuration; the loop is constructed and
\* run starts
LoadConfig ==
    /\ l_pc = "load"
    /\ validate_config(risk_params)
    /\ l_pc' = "fetch"
    /\ UNCHANGED <<ticks, data_empty, latest, attempt, waits, orders, fetched, notes,
                   cfgVars, posVars, notLive>>

\* ConfigLoader.load raises ValueError: nothing runs
ConfigRejected ==
    /\ l_pc = "load"
    /\ ~validate_config(risk_params)
    /\ l_pc' = "rejected"
    /\ UNCHANGED <<ticks, data_empty, latest, attempt, waits, orders, fetched, notes,
                   cfgVars, posVars, notLive>>

\* a configuration file about to be loaded: any of the subscripted keys may be
\* absent from its risk_management section
InitConfig ==
    /\ l_pc = "load"
    /\ ticks = 0
    /\ data_empty = TRUE
    /\ latest = NoRow
    /\ attempt = 0
    /\ waits = <<>>
    /\ orders = <<>>
    /\ fetched = FALSE
    /\ notes = <<>>
    /\ InitPosition
    /\ risk_params \in SUBSET RiskKeys
    /\ trailing_stop \in BOOLEAN
    /\ "trailing_stop" \notin risk_params => trailing_stop = FALSE
    /\ notifications_enabled = TRUE

NextConfig ==
    \/ LoadConfig
    \/ ConfigRejected
    \/ NextLive

-----------------------------------------------------------------------------
(* The position sizing: BaseStrategy.get_position_size and the sizing inside   *)
(* _enter_long_position and _enter_short_position, on the same entry.  Sizes   *)
(* are in cents, as position_size.                                             *)

\* the entries to size: balances 0 and 10000.00, prices 0, 50 and 100, ATR 0,
\* 2.5, 25 and 52.5 (the stop is two ATR from the price)
SizingBalances == {0, 1000000}
SizingPrices == {0, 500000, 1000000}
SizingAtrs == {0, 25000, 250000, 525000}
SizingArgs ==
    [account_balance : SizingBalances, price : SizingPrices, atr : SizingAtrs,
     side : {1, -1}]
NoArgs == [account_balance |-> 0, price |-> 0, atr |-> 0, side |-> 1]
NoSize == [strategy |-> Num(0), live |-> Num(0)]

Raised == [kind |-> "raised"]

\* BaseStrategy.get_position_size: risk_amount / abs(entry_price -
\* stop_loss_price), 0 on a non-positive price and on a zero distance
get_position_size(account_balance, entry, stop_loss_price) ==
    IF entry <= 0 \/ stop_loss_price <= 0 THEN 0
    ELSE LET risk_amount == account_balance \div RiskPerTradeDen
             risk_per_unit == Abs(entry - stop_loss_price)
         IN  IF risk_per_unit = 0 THEN 0
             ELSE MulDiv(risk_amount, Scale, risk_per_unit)

\* the sizing of the entry operations: (price - stop_loss) / price divides by
\* the price before anything is tested
EntrySizing(account_balance, price, stop, pos) ==
    IF price = 0 THEN Raised
    ELSE Num(PositionSize(account_balance, price, pos * (price - stop)))

StopOf(args) == calculate_stop_loss(args.atr, SideName(args.side), args.price)

InitSizing ==
    /\ s_pc = "idle"
    /\ s_args = NoArgs
    /\ s_size = NoSize

\* an entry is about to be sized
InitEntry ==
    /\ s_pc = "strategy"
    /\ s_args \in SizingArgs
    /\ s_size = NoSize

\* BaseStrategy.get_position_size returns
GetPositionSize ==
    /\ s_pc = "strategy"
    /\ s_size' = [s_size EXCEPT !.strategy =
                     Num(get_position_size(s_args.account_balance, s_args.price,
                                           StopOf(s_args)))]
    /\ s_pc' = "live"
    /\ UNCHANGED <<s_args, notSize>>

\* the entry operation computes its position_size
EntrySized ==
    /\ s_pc = "live"
    /\ s_args.price # 0
    /\ s_size' = [s_size EXCEPT !.live =
                     EntrySizing(s_args.account_balance, s_args.price, StopOf(s_args),
                                 s_args.side)]
    /\ s_pc' = "sized"
    /\ UNCHANGED <<s_args, notSize>>

\* the entry operation raises ZeroDivisionError while sizing
EntrySizingRaised ==
    /\ s_pc = "live"
    /\ s_args.price = 0
    /\ s_size' = [s_size EXCEPT !.live =
                     EntrySizing(s_args.account_balance, s_args.price, StopOf(s_args),
                                 s_args.side)]
    /\ s_pc' = "sized"
    /\ UNCHANGED <<s_args, notSize>>

NextSizing ==
    \/ GetPositionSize
    \/ EntrySized
    \/ EntrySizingRaised

-----------------------------------------------------------------------------
(* The cadence of TradingLoop.run: the clock read at the top of an iteration,  *)
(* the time the iteration's work takes, and _sleep_until_next_candle.          *)

\* the loop starts at midnight, one second before a minute boundary, or ten
\* seconds before the end of the first hour
StartClocks == {0, 59, 3590}
Timeframes == {"1m", "5m"}
\* what the fetch, its retries (1 + 2 + 4 seconds of backoff), the signals and
\* the dashboard of one iteration take
WorkSeconds == {0, 3, 8}

Minute(t) == (t \div 60) % 60

HourStart(t) == (t \div 3600) * 3600

\* the time from current_time to the boundary that _sleep_until_next_candle
\* computes for the timeframe; 60 for a timeframe it does not know
UntilNextCandle(tf, current_time) ==
    IF tf = "1m"
    THEN ((current_time \div 60) * 60 + 60) - current_time
    ELSE IF tf = "5m"
    THEN LET current_minute == Minute(current_time)
             next_minute == ((current_minute \div 5 + 1) * 5) % 60
             next_5min == HourStart(current_time) + next_minute * 60
         IN  (IF next_minute < current_minute THEN next_5min + 3600 ELSE next_5min)
                - current_time
    ELSE 60

\* sleep_seconds, with the buffer of one second
sleep_seconds(tf, current_time) == UntilNextCandle(tf, current_time) + 1

InitClock ==
    /\ c_pc = "idle"
    /\ timeframe = "1m"
    /\ clock = 0
    /\ now = 0

\* run enters its loop
InitCadence ==
    /\ c_pc = "start"
    /\ timeframe \in Timeframes
    /\ clock \in StartClocks
    /\ now = 0

\* now = datetime.now()
IterationStart ==
    /\ c_pc = "start"
    /\ clock < MaxClock
    /\ now' = clock
    /\ c_pc' = "work"
    /\ UNCHANGED <<timeframe, clock, notClock>>

\* _update_market_data, analyze, _check_signals and _update_dashboard
\* take their time
Work ==
    /\ c_pc = "work"
    /\ \E d \in WorkSeconds : clock' = clock + d
    /\ c_pc' = "sleep"
    /\ UNCHANGED <<timeframe, now, notClock>>

\* _sleep_until_next_candle(now): time.sleep(sleep_seconds) from the present
SleepUntilNextCandle ==
    /\ c_pc = "sleep"
    /\ clock' = clock + sleep_seconds(timeframe, now)
    /\ c_pc' = "start"
    /\ UNCHANGED <<timeframe, now, notClock>>

NextClock ==
    \/ IterationStart
    \/ Work
    \/ SleepUntilNextCandle

-----------------------------------------------------------------------------
(* The specifications *)

Init == InitSim /\ InitMetrics /\ InitLive /\ InitSizing /\ InitClock

\* one backtest
Spec == Init /\ [][Next]_vars

\* one backtest, then the same data simulated again
SpecTwice == Init /\ [][Next \/ SimulateAgain]_vars

\* one call of calculate_metrics
SpecMetrics == Init /\ [][NextMetrics]_vars

\* a trading loop constructed and about to run
InitRun == InitSim /\ InitMetrics /\ InitLiveRun /\ InitSizing /\ InitClock

\* the live loop
SpecLive == InitRun /\ [][NextLive]_vars

\* a configuration file about to be loaded
InitLoad == InitSim /\ InitMetrics /\ InitConfig /\ InitSizing /\ InitClock

\* the configuration is loaded, then the live loop runs
SpecConfig == InitLoad /\ [][NextConfig]_vars

\* an entry about to be sized
InitSize == InitSim /\ InitMetrics /\ InitLive /\ InitEntry /\ InitClock

\* the sizing of one entry, by both computations
SpecSizing == InitSize /\ [][NextSizing]_vars

\* run enters its loop at some time of the day
InitTimed == InitSim /\ InitMetrics /\ InitLive /\ InitSizing /\ InitCadence

\* the cadence of the loop
SpecClock == InitTimed /\ [][NextClock]_vars

-----------------------------------------------------------------------------
(* Properties of the simulator *)

Simulating == pc \in {"exits", "signals", "close"}

Returned == pc = "done" /\ outcome = "results"

\* C1: after every step of _simulate_trades the position is one of FLAT (0),
\* LONG (1), SHORT (-1), and a step that opens a position (the position
\* becomes LONG or SHORT and was not that before) starts from FLAT
C1_SinglePosition ==
    [][ /\ position' \in {-1, 0, 1}
        /\ (position' # 0 /\ position' # position) => position = 0
        /\ opened' = opened + 1 => (position = 0 /\ position' # 0) ]_vars

\* a SHORT opened on the row whose stop or target closed the previous position
C1_Witness ==
    /\ position = -1
    /\ pc = "exits"
    /\ Len(trades) >= 1
    /\ Last(trades).exit_time = entry_time
    /\ Last(trades).exit_reason = "stop_loss"

\* C2: at every point of a run the number of Trades equals the number of
\* closes taken so far (positions opened minus the one still open), a Trade is
\* appended in exactly the steps that close a position, and on return the
\* number of Trades equals the number of positions opened
C2_TradePerClose ==
    [][ /\ Simulating' =>
              Len(trades') = opened' - (IF position' # 0 THEN 1 ELSE 0)
        /\ Returned' => Len(trades') = opened'
        /\ (Simulating /\ Len(trades') # Len(trades)) =>
              /\ Len(trades') = Len(trades) + 1
              /\ position # 0
              /\ position' = 0 \/ pc' = "done"
        /\ (Simulating /\ position # 0 /\ (position' = 0 \/ pc' = "done")) =>
              Len(trades') = Len(trades) + 1 ]_vars

\* a run that returned two Trades: one closed on a signal, one at the end
C2_Witness ==
    /\ Returned
    /\ Len(trades) = 2
    /\ trades[1].exit_reason = "signal"
    /\ trades[2].exit_reason = EndReason
    /\ opened = 2

\* the forced close of the position left open by the last row, with the
\* exit_reason the ledger carries for it
EndClosed(reason) ==
    (Returned /\ position # 0) =>
        /\ Last(trades).exit_reason = reason
        /\ Cardinality({k \in 1..Len(trades) : trades[k].entry_time = entry_time}) = 1
        /\ Last(trades).entry_time = entry_time
        /\ Last(trades).exit_time = nrows
        /\ Last(trades).exit_price =
              (IF position = 1 THEN SlipDown(data[nrows].close)
               ELSE SlipUp(data[nrows].close))
        /\ Len(equity_curve) = nrows + 1
        /\ Last(equity_curve).timestamp = nrows
        /\ Len(data) = nrows

C4_DrawdownInUnitInterval ==
    /\ \A k \in 1..Len(equity_curve) :
          /\ equity_curve[k].drawdown.num >= 0
          /\ equity_curve[k].drawdown.num <= equity_curve[k].drawdown.den
    /\ Len(equity_curve) >= 1 => equity_curve[1].drawdown.num = 0

\* C5: a second simulation of the same rows by the same engine returns the
\* ledger and the equity curve the first one returned
C5_Deterministic ==
    (run_no = 2 /\ Returned) =>
        /\ trades = prev.trades
        /\ equity_curve = prev.equity_curve

\* the second run returned, with two Trades and a balance that moved
C5_Witness ==
    /\ run_no = 2
    /\ Returned
    /\ Len(trades) = 2
    /\ balance # InitialBalance

\* the rows of Scenario A: the only buy_signal at row k, no sell_signal, the
\* closes after k strictly between stop and target until row j, whose close
\* is at or below the stop; no signal after it
ScenarioA(k, j) ==
    LET entry == SlipUp(data[k].close)
        stop == calculate_stop_loss(data[k].atr, "long", entry)
        target == calculate_take_profit(entry, stop, RiskRewardRatio)
    IN  /\ \A m \in 1..nrows : data[m].buy_signal <=> m = k
        /\ \A m \in 1..nrows : ~data[m].sell_signal
        /\ \A m \in (k + 1)..(j - 1) : data[m].close > stop /\ data[m].close < target
        /\ data[j].close <= stop

\* C6: Scenario A yields exactly one Trade: long, entered at
\* signal_close * (1 + slippage), exited at stop_loss * (1 - slippage) with
\* reason stop_loss and a negative pnl; with signal close 100 and stop 95 the
\* entry is 100.05 and the exit 94.9525
C6_ScenarioA ==
    Returned =>
        \A k \in 1..nrows : \A j \in (k + 1)..nrows :
            ScenarioA(k, j) =>
                LET entry == SlipUp(data[k].close)
                    stop == calculate_stop_loss(data[k].atr, "long", entry)
                IN  /\ Len(trades) = 1
                    /\ trades[1].position = "long"
                    /\ trades[1].entry_time = k
                    /\ trades[1].exit_time = j
                    /\ trades[1].entry_price = entry
                    /\ trades[1].exit_price = SlipDown(stop)
                    /\ trades[1].exit_reason = "stop_loss"
                    /\ trades[1].pnl < 0
                    /\ (data[k].close = 1000000 /\ stop = 950000) =>
                          /\ trades[1].entry_price = 1000500
                          /\ trades[1].exit_price = 949525

\* Scenario A with the numbers of the spec: buy at close 100, a quiet bar,
\* then a close of 95
C6_Witness ==
    /\ Returned
    /\ nrows = 3
    /\ ScenarioA(1, 3)
    /\ InitialBalance = 1000000 /\ FeeRateDen = 1000 /\ SlippageDen = 2000
    /\ data[1].close = 1000000
    /\ data[3].close = 950000
    /\ trades[1].entry_price = 1000500
    /\ trades[1].exit_price = 949525
    /\ trades[1].pnl < 0

\* C8: when the bar sequence to simulate is empty, run ends with the error
\* outcome, no Trade and no equity point, and does not raise
C8_EmptyDataErrorOutcome ==
    (pc = "done" /\ nrows = 0) =>
        /\ outcome = "error"
        /\ trades = <<>>
        /\ equity_curve = <<>>

-----------------------------------------------------------------------------
(* Properties of calculate_metrics *)

MetricsDone == m_pc = "done"

Reported(key) == m_outcome = "returned" /\ key \in DOMAIN metrics

IsInf(key) == Reported(key) /\ metrics[key].kind = "inf"

\* C7: whenever the maximum drawdown of the equity curve is 0, the call
\* returns (does not raise) with romad and calmar_ratio both +infinity, for
\* every ledger, the ledger without trades included
C7_ZeroDrawdownInfiniteRatios ==
    (MetricsDone /\ m_curve # <<>> /\ ~MaxDrawdownPositive(m_curve)) =>
        /\ m_outcome = "returned"
        /\ IsInf("romad")
        /\ IsInf("calmar_ratio")

\* the length of the longest run of consecutive rows of win equal to flag
LongestRun(win, flag) ==
    MaxOf({n \in 0..Len(win) :
              \E a \in 1..(Len(win) - n + 1) : \A k \in a..(a + n - 1) : win[k] = flag})

PnlOf(tr) == [k \in 1..Len(tr) |-> tr[k].pnl]

ScenarioD == <<100, 100, -100, 100, 100, 100, -100>>

\* the consecutive-run metrics of the returned dictionary are the longest runs
\* of the ledger
RunsReported ==
    /\ m_outcome = "returned"
    /\ Reported("max_consecutive_wins")
    /\ Reported("max_consecutive_losses")
    /\ metrics["max_consecutive_wins"] =
          Num(LongestRun([k \in 1..Len(m_trades) |-> m_trades[k].pnl > 0], TRUE))
    /\ metrics["max_consecutive_losses"] =
          Num(LongestRun([k \in 1..Len(m_trades) |-> m_trades[k].pnl <= 0], TRUE))
    /\ PnlOf(m_trades) = ScenarioD =>
          /\ metrics["max_consecutive_wins"] = Num(3)
          /\ metrics["max_consecutive_losses"] = Num(1)

\* C9: for every non-empty ledger calculate_metrics reports
\* max_consecutive_wins = the longest run of consecutive trades with pnl > 0
\* in ledger order and max_consecutive_losses = the longest run with pnl <= 0
\* (0 without such a trade); the pnl sequence +1,+1,-1,+1,+1,+1,-1 gives 3
\* and 1
C9_ConsecutiveRuns ==
    (MetricsDone /\ m_trades # <<>>) => RunsReported

\* what holds of C9: every call that runs to its last line reports the
\* longest runs
C9_RunsWhenReturned ==
    (MetricsDone /\ m_outcome = "returned" /\ m_trades # <<>> /\ m_curve # <<>>) =>
        RunsReported

\* the ledger of Scenario D, measured: 3 wins in a row, 1 loss in a row
C9_Witness ==
    /\ MetricsDone
    /\ m_outcome = "returned"
    /\ PnlOf(m_trades) = ScenarioD
    /\ Reported("max_consecutive_wins")
    /\ metrics["max_consecutive_wins"] = Num(3)
    /\ metrics["max_consecutive_losses"] = Num(1)

-----------------------------------------------------------------------------
(* Properties of the simulator: the order of the steps of a row *)

\* the stop or the target closed the position on row k
ClosedByLevel(k) ==
    /\ trades # <<>>
    /\ Last(trades).exit_time = k
    /\ Last(trades).exit_reason \in {"stop_loss", "take_profit"}

TradesOfRow(k) == {n \in 1..Len(trades) : trades[n].exit_time = k}

\* C11: in every row the stop and target exits are evaluated before the
\* signals, and the signals are evaluated on the state the exits left: when
\* the stop or the target closed the position on a row that carries an entry
\* signal, a new position is opened on that same row, which yields one Trade
\* and ends with a position.
C11_ExitsThenSignals ==
    [][/\ pc = "exits" => pc' = "signals" /\ opened' = opened /\ position' \in {0, position}
       /\ (pc = "signals" /\ ClosedByLevel(i)
              /\ (data[i].buy_signal \/ data[i].sell_signal)) =>
             /\ position = 0
             /\ position' # 0
             /\ entry_time' = i
             /\ opened' = opened + 1
             /\ trades' = trades
             /\ Cardinality(TradesOfRow(i)) = 1
             /\ Len(equity_curve') = Len(equity_curve) + 1]_vars

\* a row closed a long on its stop and opened a position on its signal
C11_Witness ==
    /\ Simulating
    /\ position # 0
    /\ ClosedByLevel(entry_time)
    /\ Last(trades).exit_reason = "stop_loss"
    /\ Last(trades).position = "long"
    /\ Len(equity_curve) = entry_time + 1

\* the Trade a step appended
Appended == Last(trades')

ClosedLong(level, reason) ==
    /\ trades' = Append(trades, Appended)
    /\ Appended.position = "long"
    /\ Appended.exit_reason = reason
    /\ Appended.exit_price = SlipDown(level)
    /\ position' = 0

ClosedShort(level, reason) ==
    /\ trades' = Append(trades, Appended)
    /\ Appended.position = "short"
    /\ Appended.exit_reason = reason
    /\ Appended.exit_price = SlipUp(level)
    /\ position' = 0

\* C12: a LONG that sees close <= stop_loss is closed with reason stop_loss
\* at stop_loss * (1 - slippage), also when close >= take_profit holds; the
\* target (take_profit * (1 - slippage)) is considered only when the stop did
\* not trigger; a SHORT likewise with close >= stop_loss -> stop_loss *
\* (1 + slippage) and close <= take_profit -> take_profit * (1 + slippage).
\* The exit price is a function of the level alone.
C12_StopBeforeTarget ==
    [][pc = "exits" =>
         LET close == data'[i].close IN
         /\ (position = 1 /\ close <= stop_loss) => ClosedLong(stop_loss, "stop_loss")
         /\ (position = 1 /\ close > stop_loss /\ close >= take_profit) =>
               ClosedLong(take_profit, "take_profit")
         /\ (position = 1 /\ close > stop_loss /\ close < take_profit) =>
               trades' = trades /\ position' = 1
         /\ (position = -1 /\ close >= stop_loss) => ClosedShort(stop_loss, "stop_loss")
         /\ (position = -1 /\ close < stop_loss /\ close <= take_profit) =>
               ClosedShort(take_profit, "take_profit")
         /\ (position = -1 /\ close < stop_loss /\ close > take_profit) =>
               trades' = trades /\ position' = -1]_vars

\* a long entered at 100.05 with stop and target both at 100.05 (ATR 0) saw a
\* close of 100.05, at once at the stop and at the target, and was closed on
\* its stop
C12_Witness ==
    /\ pc = "signals"
    /\ ClosedByLevel(i)
    /\ Last(trades).position = "long"
    /\ Last(trades).exit_reason = "stop_loss"
    /\ data[i].close <= stop_loss
    /\ data[i].close >= take_profit
    /\ Last(trades).exit_price = SlipDown(stop_loss)

\* C13: when the position is FLAT and the row has both buy_signal and
\* sell_signal true, no transition is taken: no position is opened, no fee is
\* charged, the balance is unchanged.
C13_BothFlagsNoTransition ==
    [][(pc = "signals" /\ position = 0 /\ data[i].buy_signal /\ data[i].sell_signal) =>
          /\ position' = 0
          /\ opened' = opened
          /\ balance' = balance]_vars

-----------------------------------------------------------------------------
(* Properties of the live loop *)

\* the position of a tick is the position of the tick before: no order was
\* filled in between (an entry is taken only from the other side or from no
\* position, and an exit leaves no position)
SamePosition(pos) == current_position = pos /\ current_position' = pos

\* C10: with the trailing stop enabled, from one tick to the next the stop of
\* a LONG position never decreases and the stop of a SHORT position never
\* increases, and the stop changes only to the trailing candidate of the
\* tick's price, which is then strictly tighter than the stop it replaces.
C10_TrailingStopMonotone ==
    [][trailing_stop =>
        /\ SamePosition(1) => self_stop_loss' >= self_stop_loss
        /\ SamePosition(-1) => self_stop_loss' <= self_stop_loss
        /\ \A pos \in {1, -1} :
              SamePosition(pos) /\ self_stop_loss' # self_stop_loss =>
                 /\ self_stop_loss' = TrailingCandidate(pos, latest.close)
                 /\ pos * (self_stop_loss' - self_stop_loss) > 0]_vars

\* a LONG entered at 100 whose stop was trailed to 105.84 by a close of 108,
\* after a tick at 107 that hit neither the stop nor the target and whose
\* candidate 104.86 was not taken
C10_Witness ==
    /\ trailing_stop
    /\ l_pc = "dashboard"
    /\ orders = <<>>
    /\ current_position = 1
    /\ self_entry_price = 1000000
    /\ latest.close = 1070000
    /\ self_stop_loss < latest.close
    /\ latest.close < self_take_profit
    /\ TrailingActive(1, latest.close, self_entry_price)
    /\ TrailingCandidate(1, latest.close) < self_stop_loss
    /\ self_stop_loss = TrailingCandidate(1, 1080000)

\* a step that runs _check_signals on the latest row
Tick == l_pc = "check" /\ ~data_empty

\* the stop and target tests alone
LevelExit(st, price, order_ok) ==
    IF ExitBranchLive(st, price) = "stop_loss"
    THEN ExitPosition(st, st.stop_loss, "stop_loss", order_ok)
    ELSE IF ExitBranchLive(st, price) = "take_profit"
    THEN ExitPosition(st, st.take_profit, "take_profit", order_ok)
    ELSE st

\* the trailing update alone
TrailingUpdate(st, price, trailing) ==
    IF st.current_position # 0 /\ trailing
       /\ TrailingActive(st.current_position, price, st.entry_price)
    THEN [st EXCEPT !.stop_loss = TrailedStop(st.current_position, price, @)]
    ELSE st

\* a tick in the order of the simulator: exits, signals on the state the exits
\* left, trailing update
InSimulatorOrder(st, row, trailing, atr, bal, bal_ok, ok1, ok2) ==
    LET exited == LevelExit(st, row.close, ok1)
        signalled == OnSignal(exited, get_current_position(FALSE, row), row.close,
                              atr, bal, bal_ok, ok2)
    IN  IF signalled.raised THEN signalled
        ELSE TrailingUpdate(signalled, row.close, trailing)

\* the state a tick left is the state r
TickLeft(r) ==
    /\ current_position' = r.current_position
    /\ self_entry_price' = r.entry_price
    /\ self_stop_loss' = r.stop_loss
    /\ self_take_profit' = r.take_profit
    /\ position_size' = r.position_size
    /\ orders' = r.orders
    /\ (l_pc' = "crashed") = r.raised

\* C14: every live-loop tick evaluates the stop and target exits first, the
\* signal-driven transitions second and on the state the exits left, and the
\* trailing-stop update last, as the simulator orders its steps: what a tick
\* does is what these three steps do in that order, for some answers of the
\* exchange.
C14_LiveTickInSimulatorOrder ==
    [][Tick =>
         \E atr \in AtrSet, bal \in LiveBalances, bal_ok, ok1, ok2 \in BOOLEAN :
            TickLeft(InSimulatorOrder(LiveState, latest, trailing_stop, atr, bal,
                                      bal_ok, ok1, ok2))]_vars

\* the price is strictly between the stop and the target of the open position
BetweenLevels ==
    \/ current_position = 1 /\ self_stop_loss < latest.close
                            /\ latest.close < self_take_profit
    \/ current_position = -1 /\ self_take_profit < latest.close
                             /\ latest.close < self_stop_loss

\* C15: with a position open, neither buy_signal nor sell_signal on the latest
\* bar and the price strictly between stop_loss and take_profit, a tick takes
\* no transition: no order is placed and current_position, entry_price,
\* take_profit and position_size are unchanged.
C15_NoSignalNoTransition ==
    [][(Tick /\ current_position # 0 /\ ~latest.buy_signal /\ ~latest.sell_signal
             /\ BetweenLevels) =>
          /\ orders' = <<>>
          /\ current_position' = current_position
          /\ self_entry_price' = self_entry_price
          /\ self_take_profit' = self_take_profit
          /\ position_size' = position_size]_vars

\* the latest bar carries the signal against the open position
OppositeSignal ==
    \/ current_position = -1 /\ latest.buy_signal
    \/ current_position = 1 /\ latest.sell_signal /\ ~latest.buy_signal

\* C16: an opposite signal on an open position closes it: SHORT + buy_signal
\* places the exit (buy) order of the short and leaves the position FLAT,
\* LONG + sell_signal places the exit (sell) order and leaves it FLAT; a new
\* position is never recorded while the previous one has not been exited.
\* (Stated for a tick whose price is between the levels, whose balance query
\* answers and whose orders are filled.)
C16_OppositeSignalCloses ==
    [][(Tick /\ OppositeSignal /\ BetweenLevels /\ l_pc' = "dashboard"
             /\ \A k \in 1..Len(orders') : orders'[k].ok) =>
          /\ orders' # <<>>
          /\ orders'[1].reason = "signal"
          /\ orders'[1].side = (IF current_position = 1 THEN "sell" ELSE "buy")
          /\ current_position' = 0]_vars

BackoffSchedule == <<1, 2, 4>>

\* C17: in one iteration, after the fetch fails it is retried at most 3
\* times, the waits before the retries are 1s, 2s and 4s in that order, no
\* retry is made after the first successful fetch, and after the last failed
\* retry the fetch is abandoned for the iteration without raising.
C17_BoundedBackoff ==
    [][/\ Len(waits') <= MaxRetries
       /\ waits' = SubSeq(BackoffSchedule, 1, Len(waits'))
       /\ l_pc' = "retry" => ~fetched' /\ Len(waits') = attempt'
       /\ (l_pc = "retry" /\ fetched') => l_pc' = "check"
       /\ (fetched /\ l_pc # "fetch") => waits' = waits
       /\ (l_pc = "retry" /\ attempt = MaxRetries) => l_pc' \in {"check", "stopped"}
       /\ l_pc \in {"fetch", "retry"} => l_pc' # "crashed"]_vars

\* the fetch and its three retries failed after waits of 1s, 2s and 4s, and
\* the iteration went on
C17_Witness ==
    /\ l_pc = "check"
    /\ ~fetched
    /\ attempt = MaxRetries
    /\ waits = BackoffSchedule

\* C18: when the fetch and all its retries fail, the iteration is given up:
\* no signal evaluation is run, no order is placed and the position state is
\* unchanged until the next wake-up, also when an earlier iteration had
\* fetched data.
C18_FailedFetchGivesUpIteration ==
    [][(l_pc = "check" /\ ~fetched) =>
          /\ l_pc' = "sleep"
          /\ orders' = <<>>
          /\ UNCHANGED posVars]_vars

Failed(os) == {k \in 1..Len(os) : ~os[k].ok}

ErrorNotes(ns) ==
    {k \in 1..Len(ns) : ns[k] \in {"Error entering position", "Error exiting position"}}

\* C19: when an order placement fails during an entry or an exit, the failure
\* is caught and notified, the order is not retried within the tick (no other
\* order follows it), and current_position, entry_price, stop_loss,
\* take_profit and position_size keep the values they had before the attempt.
C19_FailedOrderLeavesState ==
    [][(Tick /\ Failed(orders') # {}) =>
          /\ l_pc' = "dashboard"
          /\ notifications_enabled =>
                Cardinality(ErrorNotes(notes')) = Cardinality(Failed(orders'))
          /\ Failed(orders') = {Len(orders')}
          /\ Len(orders') = 1 =>
                /\ current_position' = current_position
                /\ self_entry_price' = self_entry_price
                /\ self_take_profit' = self_take_profit
                /\ position_size' = position_size]_vars

\* what holds of C19: the handler that placed the failed order catches and
\* notifies the failure, places no other order and returns with the position
\* state it was called with
C19_HandlerLeavesState ==
    \A pos \in {1, -1}, atr \in AtrSet, bal \in LiveBalances :
       LET st == LiveState
           e == EnterPosition(st, pos, latest.close, atr, bal, TRUE, FALSE)
           x == ExitPosition(st, latest.close, "signal", FALSE)
           Same(r) == /\ r.current_position = st.current_position
                      /\ r.entry_price = st.entry_price
                      /\ r.stop_loss = st.stop_loss
                      /\ r.take_profit = st.take_profit
                      /\ r.position_size = st.position_size
                      /\ ~r.raised
       IN  /\ Same(e) /\ Len(e.orders) = 1
           /\ e.notes = Notify(st.notes, "Error entering position")
           /\ Same(x)
           /\ st.current_position # 0 =>
                 /\ Len(x.orders) = 1
                 /\ x.notes = Notify(st.notes, "Error exiting position")

\* a fetch of the market data raised in this step
FetchRaised ==
    \/ l_pc = "fetch" /\ l_pc' = "retry"
    \/ l_pc = "retry" /\ attempt' = attempt + 1

\* C20: with notifications enabled, the loop emits a notification for every
\* successful entry, every successful exit and every error, including the
\* failures of the market-data fetch and of the order placement.
C20_EveryEventNotified ==
    [][notifications_enabled =>
          /\ Tick => Len(notes') >= Len(notes) + Len(orders')
          /\ l_pc' = "crashed" => notes' # notes
          /\ FetchRaised => notes' # <<>>]_vars

-----------------------------------------------------------------------------
(* Properties of TradingLoop.run *)

LoopEnded == l_pc \in {"stopped", "crashed", "key_error"}

\* C21: the loop ends only on the cancellation signal: no failure of a
\* collaborator (balance query, stop and target calculation, signal analysis,
\* dashboard refresh, order placement, data fetch) ends it
C21_OnlyCancellationEndsLoop == LoopEnded => l_pc = "stopped"

\* C22: on the cancellation signal run sends the shutdown notification if
\* notifications are enabled and returns: it places no order and leaves the
\* position state as the last executed handler left it, and nothing happens
\* after it has returned
C22_CancellationStops ==
    [][/\ l_pc # "stopped"
       /\ l_pc' = "stopped" =>
             /\ notes' = IF notifications_enabled
                         THEN Append(notes, "trading stopped") ELSE notes
             /\ orders' = orders
             /\ posVars' = posVars]_vars

\* the loop was cancelled with a position open and notifications enabled
C22_Witness ==
    /\ l_pc = "stopped"
    /\ current_position # 0
    /\ position_size > 0
    /\ notifications_enabled
    /\ notes # <<>>
    /\ Last(notes) = "trading stopped"

-----------------------------------------------------------------------------
(* Properties of the equity curve and of calculate_metrics *)

\* C23: the equity curve returned by _simulate_trades has exactly one point
\* per processed row: as many points as rows, no two with the same timestamp
C23_OnePointPerRow ==
    Returned =>
        /\ Len(equity_curve) = nrows
        /\ \A a, b \in 1..Len(equity_curve) :
              a # b => equity_curve[a].timestamp # equity_curve[b].timestamp

\* C24: for a non-empty ledger and a non-empty equity curve calculate_metrics
\* returns; when no whole day lies between the first and the last sample,
\* annualized_return is 0 and, with a positive maximum drawdown, calmar_ratio
\* is 0 / max_drawdown = 0
C24_NeverRaises ==
    (MetricsDone /\ m_trades # <<>> /\ m_curve # <<>>) =>
        /\ m_outcome = "returned"
        /\ ~(ElapsedDays(m_curve) > 0) =>
              /\ Reported("annualized_return")
              /\ metrics["annualized_return"] = Num(0)
              /\ MaxDrawdownPositive(m_curve) =>
                    /\ Reported("calmar_ratio")
                    /\ metrics["calmar_ratio"] = Num(0)

Sentinel(key) ==
    /\ key \in DOMAIN metrics
    /\ metrics[key] \in {Num(0), Inf}

\* C25: for a ledger without trades and a non-empty equity curve
\* calculate_metrics returns defined values (total_return and max_drawdown
\* numbers, total_trades = 0, win_rate = 0, profit_factor, romad and
\* calmar_ratio 0 or +infinity) and display_results does not raise
C25_ZeroTradesSentinels ==
    (m_pc \in {"done", "displayed"} /\ m_trades = <<>> /\ m_curve # <<>>) =>
        /\ m_outcome = "returned"
        /\ \A key \in {"total_return", "max_drawdown"} :
              key \in DOMAIN metrics /\ metrics[key].kind = "num"
        /\ "total_trades" \in DOMAIN metrics /\ metrics["total_trades"] = Num(0)
        /\ "win_rate" \in DOMAIN metrics /\ metrics["win_rate"] = Num(0)
        /\ \A key \in {"profit_factor", "romad", "calmar_ratio"} : Sentinel(key)

\* C28: calculate_metrics is pure: when it returns, the ledger it was passed
\* is the ledger as it was before the call and the equity curve is a curve of
\* EquityPoints as it was passed, with no record or field added, changed or
\* removed
C28_PureFunction ==
    [][(m_pc = "ledger" /\ m_pc' = "done" /\ m_outcome' = "returned") =>
          /\ m_trades' = m_trades
          /\ m_curve' \in Curves
          /\ \A k \in 1..Len(m_curve') :
                DOMAIN m_curve'[k] = {"timestamp", "equity", "drawdown"}]_vars

-----------------------------------------------------------------------------
(* Properties of the position state and of the configuration of TradingLoop *)

\* the tick recorded a position it did not hold before
Entered == current_position' # 0 /\ current_position' # current_position

\* C26: whenever the loop holds a position its recorded size is positive, and
\* a tick that records a new position records its entry price, stop loss and
\* take profit with it; an entry of size 0 leaves no position behind
C26_OpenPositionSized ==
    [][/\ current_position' # 0 => position_size' > 0
       /\ Entered =>
             /\ self_entry_price' = latest.close
             /\ \E atr \in AtrSet :
                   /\ self_stop_loss' = calculate_stop_loss(atr, SideName(current_position'),
                                                            latest.close)
                   /\ self_take_profit' = calculate_take_profit(latest.close, self_stop_loss',
                                                                RiskRewardRatio)]_vars

\* C27: a configuration without a required risk parameter (trailing_stop,
\* trailing_stop_activation, trailing_stop_distance, max_position_size) is
\* rejected before run starts: a running loop never fails on an absent key
C27_NoMissingKeyMidRun == l_pc # "key_error"

-----------------------------------------------------------------------------
(* The simulator against the live loop and the transition table *)

\* the row's signal phase ends with the position that was held before it
HeldThroughRow == pc = "signals" /\ pc' # "signals" /\ position # 0 /\ position' = position

\* C29: with the trailing stop enabled, the simulator tightens the stop of a
\* position that is still open after the exits and signals of a row as the
\* live loop does: past the activation level the stop becomes the tighter of
\* the stop and close * (1 -/+ distance)
C29_SimulatorTrailsStop ==
    [][(HeldThroughRow /\ trailing_stop
            /\ TrailingActive(position, data[i].close, entry_price)) =>
          stop_loss' = TrailedStop(position, data[i].close, stop_loss)]_vars

\* the signal phase opened a position of side pos at the price entry
OpenedAt(pos, entry) ==
    /\ position' = pos
    /\ entry_price' = entry
    /\ entry_time' = i
    /\ trades' = trades

\* the signal phase closed the position at the price exit, with reason signal,
\* and opened none
ClosedOnSignal(exit) ==
    /\ position' = 0
    /\ Len(trades') = Len(trades) + 1
    /\ Last(trades').exit_price = exit
    /\ Last(trades').exit_reason = "signal"
    /\ Last(trades').exit_time = i
    /\ Last(trades').position = SideName(position)

\* the signal phase changed nothing of the position and of the ledger
NoTransition ==
    /\ UNCHANGED <<position, entry_price, entry_time, stop_loss, take_profit>>
    /\ UNCHANGED <<trades, balance>>

\* C30: the signal phase of a row takes at most one transition, chosen by the
\* position the exits left: FLAT and buy_signal opens a LONG at
\* close * (1 + slippage); FLAT and sell_signal without buy_signal opens a
\* SHORT at close * (1 - slippage); LONG and sell_signal closes at
\* close * (1 - slippage), SHORT and buy_signal at close * (1 + slippage), both
\* with reason signal and without an entry on the same row; every other row
\* leaves the position as it is
C30_SignalTransitions ==
    [][pc = "signals" =>
          LET row == data[i]
          IN  /\ Len(trades') <= Len(trades) + 1
              /\ (position = 0 /\ row.buy_signal) => OpenedAt(1, SlipUp(row.close))
              /\ (position = 0 /\ row.sell_signal /\ ~row.buy_signal) =>
                    OpenedAt(-1, SlipDown(row.close))
              /\ (position = 1 /\ row.sell_signal) => ClosedOnSignal(SlipDown(row.close))
              /\ (position = -1 /\ row.buy_signal) => ClosedOnSignal(SlipUp(row.close))
              /\ (position = 1 /\ ~row.sell_signal) => NoTransition
              /\ (position = -1 /\ ~row.buy_signal) => NoTransition
              /\ (position = 0 /\ ~row.buy_signal /\ ~row.sell_signal) => NoTransition]_vars

\* the last row carried both flags on a SHORT that the exits had left open:
\* it was closed on the signal at close * (1 + slippage) and no LONG was opened
C30_Witness ==
    /\ pc = "close"
    /\ position = 0
    /\ trades # <<>>
    /\ Last(trades).exit_time = nrows
    /\ Last(trades).exit_reason = "signal"
    /\ Last(trades).position = "short"
    /\ Last(trades).exit_price = SlipUp(data[nrows].close)
    /\ data[nrows].buy_signal
    /\ data[nrows].sell_signal

-----------------------------------------------------------------------------
(* The money of the simulator *)

\* the step opened a position
Opens == pc = "signals" /\ position = 0 /\ position' # 0

\* C31: opening a position takes entry_price * fee_rate off the balance, with
\* entry_price the close adjusted by the slippage, whatever the balance is,
\* and changes the balance in no other way
C31_EntryFee ==
    [][Opens =>
          /\ entry_price' = IF position' = 1 THEN SlipUp(data[i].close)
                            ELSE SlipDown(data[i].close)
          /\ balance' = balance - ((entry_price' \div FeeRateDen) \div PricePerCent)]_vars

\* a second position was opened on a balance that a first trade had changed
C31_Witness ==
    /\ Simulating
    /\ position # 0
    /\ opened = 2
    /\ Len(trades) = 1
    /\ trades[1].pnl - trades[1].fee # 0
    /\ balance = InitialBalance - (trades[1].entry_price \div FeeRateDen) \div PricePerCent
                    + trades[1].pnl - trades[1].fee
                    - (entry_price \div FeeRateDen) \div PricePerCent

\* the step recorded a Trade
Closes == Len(trades') = Len(trades) + 1

\* C32: every close (stop, target, signal, end of run) records
\* pnl = direction * (exit_price - entry_price) / entry_price * B and
\* fee = exit_price * fee_rate * B / entry_price, with B the balance just
\* before the close and direction +1 for LONG, -1 for SHORT, and leaves the
\* balance at B + pnl - fee
C32_ClosePnlAndFee ==
    [][Closes =>
          LET t == Last(trades')
              direction == IF t.position = "long" THEN 1 ELSE -1
          IN  /\ t.position = SideName(position)
              /\ t.entry_price = entry_price
              /\ t.pnl = MulDiv(balance, direction * (t.exit_price - t.entry_price),
                                t.entry_price)
              /\ t.fee = MulDiv(balance, t.exit_price, t.entry_price) \div FeeRateDen
              /\ balance' = balance + t.pnl - t.fee]_vars

\* a run closed a LONG and a SHORT, the second on a balance that the first
\* trade had changed, one of them at the end of the run
C32_Witness ==
    /\ Returned
    /\ Len(trades) = 2
    /\ trades[1].pnl # 0
    /\ trades[2].pnl # 0
    /\ trades[1].position # trades[2].position
    /\ trades[2].exit_reason = EndReason

\* the step ended a row and recorded its equity point
RowRecorded == pc = "signals" /\ Len(equity_curve') = Len(equity_curve) + 1

\* C33: the equity recorded for a row is the balance plus the unrealized pnl
\* of the open position at the row's close, with the balance and the position
\* as they are when the point is recorded, after the row's exits and entries:
\* the post-close balance on a row that closed a position, the balance less
\* the entry fee on an entry row
C33_EquityAfterRow ==
    [][RowRecorded =>
          Last(equity_curve').equity =
             CurrentEquity(position', data[i].close, entry_price', balance')]_vars

\* the highest of the initial balance and the first k equity samples
PeakUpTo(curve, k) == MaxOf({InitialBalance} \cup {curve[j].equity : j \in 1..k})

\* sample k of the curve carries the drawdown from the running peak
FromRunningPeak(curve, k) ==
    LET peak == PeakUpTo(curve, k)
        dd == curve[k].drawdown
    IN  /\ \/ dd = [num |-> peak - curve[k].equity, den |-> peak]
           \/ dd = ZeroDrawdown /\ curve[k].equity = peak
        /\ (dd.num = 0) = (curve[k].equity >= PeakUpTo(curve, k - 1))

\* C34: the running peak starts at the initial balance and never decreases
\* during the run, every drawdown sample is (peak - equity) / peak for the
\* running peak at its row, and a sample is 0 exactly when its equity is not
\* below the highest equity seen before it
C34_RunningPeak ==
    [][/\ (pc = "simulate" /\ pc' = "exits") => max_equity' = InitialBalance
       /\ Simulating => max_equity' >= max_equity
       /\ \A k \in 1..Len(equity_curve') : FromRunningPeak(equity_curve', k)]_vars

\* the equity rose above the initial balance and then fell below that peak
C34_Witness ==
    /\ Returned
    /\ \E k \in 1..Len(equity_curve) :
          /\ equity_curve[k].drawdown.num > 0
          /\ equity_curve[k].drawdown.den > InitialBalance
          /\ equity_curve[k].equity > InitialBalance

-----------------------------------------------------------------------------
(* Properties of the position sizing *)

\* min(balance * risk_per_trade / (|entry - stop| / entry),
\*     balance * max_position_size), 0 on a zero distance and on a
\* non-positive entry or stop
SizeByRisk(account_balance, entry, stop) ==
    IF entry <= 0 \/ stop <= 0 \/ entry = stop THEN 0
    ELSE Min(MulDiv(account_balance \div RiskPerTradeDen, entry, Abs(entry - stop)),
             account_balance \div MaxPositionSizeDen)

\* C35: the size of an entry is min(balance * risk_per_trade /
\* (|entry_price - stop_loss| / entry_price), balance * max_position_size),
\* and 0 when the distance is 0 or a price is not positive; nothing raises;
\* both for get_position_size and for the sizing of the entry operations
C35_PositionSize ==
    s_pc = "sized" =>
        LET size == Num(SizeByRisk(s_args.account_balance, s_args.price, StopOf(s_args)))
        IN  /\ s_size.strategy = size
            /\ s_size.live = size

-----------------------------------------------------------------------------
(* Properties of the cadence *)

Period(tf) == IF tf = "1m" THEN 60 ELSE 5 * 60

\* the first boundary of the timeframe after the time t
NextBoundary(tf, t) == (t \div Period(tf) + 1) * Period(tf)

\* C36: an iteration wakes one second (the buffer) after the first timeframe
\* boundary that follows it, however long its fetch, retries and signal
\* processing took, so that no boundary is skipped
C36_WakesAfterBoundary ==
    [][(c_pc = "sleep" /\ c_pc' = "start") =>
          clock' = NextBoundary(timeframe, clock) + 1]_vars

-----------------------------------------------------------------------------
(* Properties of the recorded position and of the ledger *)

\* C37: whenever the live loop holds no position (at the start, and after
\* any entries, exits and failed orders), entry_price, stop_loss, take_profit
\* and position_size are 0: an exit resets the five fields together
C37_FlatMeansZero ==
    current_position = 0 =>
        /\ self_entry_price = 0
        /\ self_stop_loss = 0
        /\ self_take_profit = 0
        /\ position_size = 0

\* a tick left the loop FLAT by its second exit order, the first having failed
C37_Witness ==
    /\ current_position = 0
    /\ Len(orders) = 2
    /\ ~orders[1].ok
    /\ orders[2].ok
    /\ orders[2].reason = "stop_loss"
    /\ ticks > 0

\* C38: the trades of the ledger are in chronological order and do not
\* overlap: a trade exits after it entered, or on the row it entered if it is
\* the forced close of the end of the run, and enters no earlier than the
\* trade before it exited
C38_ChronologicalLedger ==
    \A k \in 1..Len(trades) :
        /\ trades[k].exit_time >= trades[k].entry_time
        /\ trades[k].exit_reason # EndReason => trades[k].exit_time > trades[k].entry_time
        /\ k > 1 => trades[k].entry_time >= trades[k - 1].exit_time

\* a position was stopped on the last row, another one was opened on that
\* row and closed by the end of the run
C38_Witness ==
    /\ Returned
    /\ Len(trades) = 2
    /\ trades[1].exit_time > trades[1].entry_time
    /\ trades[2].entry_time = trades[1].exit_time
    /\ trades[2].exit_time = trades[2].entry_time
    /\ trades[2].exit_reason = EndReason

\* the sum of pnl - fee over the first n trades of the ledger
RECURSIVE LedgerNet(_, _)
LedgerNet(tr, n) ==
    IF n = 0 THEN 0 ELSE LedgerNet(tr, n - 1) + tr[n].pnl - tr[n].fee

\* the sum of entry_price * fee_rate over the first n trades of the ledger
RECURSIVE LedgerEntryFees(_, _)
LedgerEntryFees(tr, n) ==
    IF n = 0 THEN 0
    ELSE LedgerEntryFees(tr, n - 1) + (tr[n].entry_price \div FeeRateDen) \div PricePerCent

\* the entry fee of the position that is open and not yet in the ledger
OpenEntryFee ==
    IF opened > Len(trades) THEN (entry_price \div FeeRateDen) \div PricePerCent ELSE 0

\* C39: at every point of a run the balance is the initial balance, less the
\* entry fees of all the positions opened so far, plus pnl - fee of all the
\* Trades recorded so far
C39_BalanceAccounting ==
    (Simulating \/ Returned) =>
        balance = InitialBalance - LedgerEntryFees(trades, Len(trades)) - OpenEntryFee
                     + LedgerNet(trades, Len(trades))

\* a position is open and its entry fee paid, after a first trade that was
\* closed with a fee
C39_Witness ==
    /\ Simulating
    /\ opened = Len(trades) + 1
    /\ Len(trades) >= 1
    /\ trades[1].fee > 0
    /\ OpenEntryFee > 0

\* C40: the last equity sample of a completed run is the final balance, the
\* balance after every Trade of the run, a close on the last row and the
\* forced close of the end of the run included
C40_LastSampleIsFinalBalance ==
    Returned => Last(equity_curve).equity = balance

====
